---------------------------- MODULE Spec2Model ----------------------------
(***************************************************************************)
(* A model of jz::ProjIter (src/projection_iterator.hh) and of the         *)
(* folded-interleave demonstration (src/folded_interleave_sort.cc).        *)
(*                                                                         *)
(* Four specifications share the variables below:                         *)
(*   SpecProj  the closure returned by make_folded_interleave_projection,  *)
(*             called on the logical indices of a container;               *)
(*   SpecIter  two ProjIter objects of one origin and every operation of   *)
(*             the class applied to them;                                  *)
(*   SpecDeref one ProjIter object moved over a container that is read and *)
(*             written through it, for every permutation as projection;    *)
(*   SpecSort  main's  std::sort(fip_begin, fip_end)  step by step,        *)
(*             followed by  print_span(fip_begin, fip_end).                *)
(***************************************************************************)
EXTENDS Integers, Sequences, FiniteSets, TLC

VARIABLES
    psize,   \* SpecProj: the size captured by the closure
    image,   \* SpecProj: the results of the calls made so far (index -> result)
    v,       \* the container (std::vector<int>), physical position i is v[i+1]
    ctor,    \* the base position and projection handed to the constructor
    its,     \* SpecIter: the iterator objects, by name
    res,     \* SpecIter: the last operation, its operands and what it returned
    pc,      \* SpecSort: the position in std::sort / print_span
    loc,     \* SpecSort: the local variables of the running function
    v0,      \* SpecSort: the container as it was before the sort
    out      \* SpecSort: what print_span has written so far

vars == <<psize, image, v, ctor, its, res, pc, loc, v0, out>>

----------------------------------------------------------------------------
(* Bounds of the model.                                                    *)

MaxSize == 10   \* SpecProj: container sizes 0..MaxSize
IterN   == 3    \* SpecIter, SpecDeref: the size the projection is made for
MaxBase == 1    \* SpecIter, SpecDeref: the base iterator is v.begin() + 0..MaxBase
MaxK    == 1    \* SpecIter, SpecDeref: deltas -MaxK..MaxK; logical indices are
                \* kept in -MaxK..IterN+MaxK
MaxN    == 4    \* SpecSort: every array of 0..MaxN elements
MaxVal  == 1    \* SpecSort: element values 0..MaxVal

\* libstdc++'s  enum { _S_threshold = 16 }  (bits/stl_algo.h): std::sort runs the
\* introsort loop only on ranges longer than this.
S_threshold == 16

----------------------------------------------------------------------------
(* Projections.  A projection is a callable from ptrdiff_t to an integral  *)
(* type.  Two kinds are modelled: the closure of                           *)
(* make_folded_interleave_projection, and a lookup table holding an        *)
(* arbitrary permutation of 0..size-1 (the identity outside that range).   *)

\* FoldLambda with the "- 1" of the folded branch forgotten.
FoldLambdaOffByOne(size, index) ==
    LET index2 == 2 * index
    IN  IF index2 >= size THEN 2 * size - index2 ELSE index2

\* FoldLambda with the fold taken at index2 > size instead of index2 >= size.
FoldLambdaStrict(size, index) ==
    LET index2 == 2 * index
    IN  IF index2 > size THEN 2 * size - index2 - 1 ELSE index2

\* The body of the lambda: index2 >= size ? 2*size - index2 - 1 : index2.
FoldLambda(size, index) ==
    LET index2 == 2 * index
    IN  IF index2 >= size THEN 2 * size - index2 - 1 ELSE index2

make_folded_interleave_projection(size) ==
    [kind |-> "fold", size |-> size, map |-> <<>>]

TableProjection(map) ==
    [kind |-> "table", size |-> Len(map), map |-> map]

\* projection_(index): the call of the stored callable.
Call(projection, index) ==
    IF projection.kind = "fold"
    THEN FoldLambda(projection.size, index)
    ELSE IF index \in 0..(projection.size - 1)
         THEN projection.map[index + 1]
         ELSE index

\* Every permutation of 0..n-1, as a sequence of length n.
Permutations0(n) ==
    {m \in [1..n -> 0..(n - 1)] : \A i, j \in 1..n : m[i] = m[j] => i = j}

----------------------------------------------------------------------------
(* class ProjIter.  An object is a record of its three data members.  An   *)
(* operation that changes *this yields [self |-> the object afterwards,    *)
(* ret |-> what it returns]; a const member function yields what it        *)
(* returns.  Positions in the container are physical indices, counted from *)
(* 0 at v.begin().                                                         *)

ProjIter(base, projection) ==
    [base_ |-> base, projection_ |-> projection, index_ |-> 0]

make_projection_iterator(base, projection) == ProjIter(base, projection)

\* base_ = rhs.base_; index_ = rhs.index_; return *this;
OpCopyAssign(this, rhs) ==
    LET t == [this EXCEPT !.base_ = rhs.base_, !.index_ = rhs.index_]
    IN  [self |-> t, ret |-> t]

OpMoveAssign(this, rhs) ==
    LET t == [this EXCEPT !.base_ = rhs.base_, !.index_ = rhs.index_]
    IN  [self |-> t, ret |-> t]

\* Iter copy = base_; std::advance(copy, projection_(index_)); return copy;
projected_(this) == this.base_ + Call(this.projection_, this.index_)

\* reference operator*():  return *projected_();
\* An lvalue: the element at the projected position.
OpDeref(this) == [kind |-> "reference", pos |-> projected_(this)]

\* value_type operator->():  return projected_();
\* The declared return type is value_type, not pointer: the iterator
\* projected_() yields is converted to an element value (the member is
\* ill-formed for an element type that cannot be initialised from Iter), and
\* what is returned is that prvalue, which designates no element.
OpArrow(this) == [kind |-> "value", pos |-> projected_(this)]

\* operator++ advancing the base iterator instead of the logical index.
OpPreIncMovesBase(this) ==
    LET t == [this EXCEPT !.base_ = @ + 1]
    IN  [self |-> t, ret |-> t]

\* ++index_; return *this;
OpPreInc(this) ==
    LET t == [this EXCEPT !.index_ = @ + 1]
    IN  [self |-> t, ret |-> t]

\* Post-increment returning the incremented iterator instead of the copy.
OpPostIncReturnsNew(this) ==
    [self |-> OpPreInc(this).self, ret |-> OpPreInc(this).self]

\* auto copy = *this; this->operator++(); return copy;
OpPostInc(this) ==
    LET copy == this
    IN  [self |-> OpPreInc(this).self, ret |-> copy]

\* --index_; return *this;
OpPreDec(this) ==
    LET t == [this EXCEPT !.index_ = @ - 1]
    IN  [self |-> t, ret |-> t]

\* auto copy = *this; this->operator--(); return copy;
OpPostDec(this) ==
    LET copy == this
    IN  [self |-> OpPreDec(this).self, ret |-> copy]

\* index_ += delta; return *this;
OpPlusAssign(this, delta) ==
    LET t == [this EXCEPT !.index_ = @ + delta]
    IN  [self |-> t, ret |-> t]

\* auto copy = *this; copy += delta; return copy;
OpPlus(this, delta) ==
    LET copy == this
    IN  OpPlusAssign(copy, delta).self

\* index_ += delta; return *this;      (operator-=, as written)
OpMinusAssign(this, delta) ==
    LET t == [this EXCEPT !.index_ = @ + delta]
    IN  [self |-> t, ret |-> t]

\* auto copy = *this; copy -= delta; return copy;
OpMinus(this, delta) ==
    LET copy == this
    IN  OpMinusAssign(copy, delta).self

\* Difference taken between the physical positions.
OpDiffPhysical(this, rhs) == projected_(this) - projected_(rhs)

\* return index_ - rhs.index_;
OpDiff(this, rhs) == this.index_ - rhs.index_

\* return index_ < rhs.index_;
OpLess(this, rhs) == this.index_ < rhs.index_

\* return index_ == rhs.index_;
OpEqual(this, rhs) == this.index_ = rhs.index_

\* operator> with the operands not swapped.
OpGreaterNotSwapped(this, rhs) == OpLess(this, rhs)

\* return rhs < *this;
OpGreater(this, rhs) == OpLess(rhs, this)

\* return !(*this > rhs);
OpLessEq(this, rhs) == ~OpGreater(this, rhs)

\* return !(*this < rhs);
OpGreaterEq(this, rhs) == ~OpLess(this, rhs)

\* return !(*this == rhs);
OpNotEqual(this, rhs) == ~OpEqual(this, rhs)

\* Whether a physical position lies inside container c.
InBounds(c, pos) == pos \in 0..(Len(c) - 1)

----------------------------------------------------------------------------
(* SpecProj: the folded-interleave closure called on 0..size-1.            *)

NoIter == [base_ |-> 0, projection_ |-> TableProjection(<<>>), index_ |-> 0]
NoRes  == [op |-> "none"]

IdleIter ==
    /\ v = <<>> /\ ctor = [base |-> 0, projection |-> TableProjection(<<>>)]
    /\ its = [x \in {"a", "b"} |-> NoIter] /\ res = NoRes
IdleSort == pc = "idle" /\ loc = <<>> /\ v0 = <<>> /\ out = <<>>
IdleProj == psize = 0 /\ image = <<>>

InitProj ==
    /\ psize \in 0..MaxSize
    /\ image = [i \in {} |-> 0]
    /\ IdleIter /\ IdleSort

\* One call p(index) of the closure made for psize.
CallProjection(index) ==
    /\ index \notin DOMAIN image
    /\ image' = [i \in DOMAIN image \cup {index} |->
                   IF i = index
                   THEN Call(make_folded_interleave_projection(psize), index)
                   ELSE image[i]]
    /\ UNCHANGED <<psize, v, ctor, its, res, pc, loc, v0, out>>

NextProj == \E index \in 0..(psize - 1) : CallProjection(index)

SpecProj == InitProj /\ [][NextProj]_vars

Computed == DOMAIN image
AllCalled == Computed = 0..(psize - 1)

\* C1: for every size n >= 0 the folded-interleave projection restricted to
\* 0..n-1 is a permutation of 0..n-1: every result lies in 0..n-1, no two
\* logical indices give the same result, and once every index has been
\* called every value of 0..n-1 has been produced.
C1_FoldIsPermutation ==
    /\ \A i \in Computed : image[i] \in 0..(psize - 1)
    /\ \A i, j \in Computed : image[i] = image[j] => i = j
    /\ AllCalled => {image[i] : i \in Computed} = 0..(psize - 1)

\* C1 witness: an odd and an even size with every index called.
C1_Witness == AllCalled /\ psize = 7 /\ image[3] = 6 /\ image[4] = 5

\* C2 as stated: p(2k) = k and p(2k+1) = n-1-k, i.e. walking i = 0, 1, 2, ...
\* through p yields 0, n-1, 1, n-2, ...
C2_AsStated ==
    \A i \in Computed :
        image[i] = IF i % 2 = 0 THEN i \div 2 ELSE psize - 1 - (i \div 2)

\* C2 amended: it is the inverse of p that yields 0, n-1, 1, n-2, ...: the
\* logical index stored at physical position 2k is k and the one stored at
\* physical position 2k+1 is n-1-k (p(k) = 2k, p(n-1-k) = 2k+1).  n = 10 maps
\* 0..9 to 0,2,4,6,8,9,7,5,3,1 and n = 5 maps 0..4 to 0,2,4,3,1.
C2_InverseIsZigZag ==
    /\ \A i \in Computed :
          /\ image[i] \in 0..(psize - 1)
          /\ i = IF image[i] % 2 = 0 THEN image[i] \div 2
                 ELSE psize - 1 - (image[i] \div 2)
    /\ (AllCalled /\ psize = 10) =>
          [i \in 1..10 |-> image[i - 1]] = <<0, 2, 4, 6, 8, 9, 7, 5, 3, 1>>
    /\ (AllCalled /\ psize = 5) =>
          [i \in 1..5 |-> image[i - 1]] = <<0, 2, 4, 3, 1>>

\* C2 witness: size 10 with every index called; the walk is not 0,9,1,8,...
C2_Witness == AllCalled /\ psize = 10 /\ image[1] = 2 /\ image[9] = 1

----------------------------------------------------------------------------
(* SpecIter: two iterators "a" and "b" made from one base position and one *)
(* projection over a container of ContLen elements, and every operation of *)
(* the class applied to them in any order.  res records the operation just *)
(* performed: its operands (x, y, k), the iterators as they were before it *)
(* and what it returned.                                                   *)

Names    == {"a", "b"}
Deltas   == (-MaxK)..MaxK
IdxOk(i) == i \in (-MaxK)..(IterN + MaxK)
ContLen  == MaxBase + IterN
Pristine == [i \in 1..ContLen |-> i - 1]
Written  == ContLen   \* the value stored by a write: no element starts with it

Reverse(n) == [i \in 1..n |-> n - i]

\* SpecIter: the folded-interleave closure and the reversing table.
ProjectionsIter(n) ==
    {make_folded_interleave_projection(n), TableProjection(Reverse(n))}

\* SpecDeref: the folded-interleave closure and every permutation.
Projections(n) ==
    {make_folded_interleave_projection(n)}
        \cup {TableProjection(m) : m \in Permutations0(n)}

Result(op, x, y, k, ret) ==
    [op |-> op, x |-> x, y |-> y, k |-> k, before |-> its, ret |-> ret]

InitObjects(projections) ==
    /\ ctor \in [base : 0..MaxBase, projection : projections]
    /\ v = Pristine
    /\ its = [x \in Names |-> make_projection_iterator(ctor.base, ctor.projection)]
    /\ res = [op |-> "init", x |-> "a", y |-> "a", k |-> 0, before |-> its, ret |-> 0]
    /\ IdleProj /\ IdleSort

InitIter == InitObjects(ProjectionsIter(IterN))

IterFrame == UNCHANGED <<psize, image, ctor, pc, loc, v0, out>>

\* An operation on x that changes x: o is [self, ret].
Mutate(op, x, y, k, o) ==
    /\ its' = [its EXCEPT ![x] = o.self]
    /\ res' = Result(op, x, y, k, o.ret)
    /\ UNCHANGED v /\ IterFrame

\* An operation of a const member function of x, returning r.
Observe(op, x, y, k, r) ==
    /\ res' = Result(op, x, y, k, r)
    /\ UNCHANGED <<v, its>> /\ IterFrame

\* x = make_projection_iterator(base, projection)
Construct(x) ==
    /\ x \in Names
    /\ LET t == make_projection_iterator(ctor.base, ctor.projection)
       IN  Mutate("construct", x, x, 0, [self |-> t, ret |-> t])

\* x = y
CopyAssign(x, y) ==
    /\ x # y
    /\ Mutate("x=y", x, y, 0, OpCopyAssign(its[x], its[y]))

\* x = std::move(y)
MoveAssign(x, y) ==
    /\ x # y
    /\ Mutate("x=move(y)", x, y, 0, OpMoveAssign(its[x], its[y]))

\* r = *x        (the caller keeps the projected position inside the container)
DerefRead(x) ==
    /\ InBounds(v, OpDeref(its[x]).pos)
    /\ Observe("*x", x, x, 0,
               [ref |-> OpDeref(its[x]), val |-> v[OpDeref(its[x]).pos + 1]])

\* *x = Written
DerefWrite(x) ==
    /\ InBounds(v, OpDeref(its[x]).pos)
    /\ v' = [v EXCEPT ![OpDeref(its[x]).pos + 1] = Written]
    /\ res' = Result("*x=", x, x, 0, [ref |-> OpDeref(its[x]), old |-> v])
    /\ UNCHANGED its /\ IterFrame

\* r = x.operator->()
Arrow(x) ==
    /\ InBounds(v, OpArrow(its[x]).pos)
    /\ Observe("x->", x, x, 0, OpArrow(its[x]))

\* ++x
PreInc(x) ==
    /\ IdxOk(OpPreInc(its[x]).self.index_)
    /\ Mutate("++x", x, x, 0, OpPreInc(its[x]))

\* x++
PostInc(x) ==
    /\ IdxOk(OpPostInc(its[x]).self.index_)
    /\ Mutate("x++", x, x, 0, OpPostInc(its[x]))

\* --x
PreDec(x) ==
    /\ IdxOk(OpPreDec(its[x]).self.index_)
    /\ Mutate("--x", x, x, 0, OpPreDec(its[x]))

\* x--
PostDec(x) ==
    /\ IdxOk(OpPostDec(its[x]).self.index_)
    /\ Mutate("x--", x, x, 0, OpPostDec(its[x]))

\* x += k
PlusAssign(x, k) ==
    /\ IdxOk(OpPlusAssign(its[x], k).self.index_)
    /\ Mutate("x+=k", x, x, k, OpPlusAssign(its[x], k))

\* x -= k
MinusAssign(x, k) ==
    /\ IdxOk(OpMinusAssign(its[x], k).self.index_)
    /\ Mutate("x-=k", x, x, k, OpMinusAssign(its[x], k))

\* r = x + k
Plus(x, k) ==
    /\ IdxOk(OpPlus(its[x], k).index_)
    /\ Observe("x+k", x, x, k, OpPlus(its[x], k))

\* r = x - k
Minus(x, k) ==
    /\ IdxOk(OpMinus(its[x], k).index_)
    /\ Observe("x-k", x, x, k, OpMinus(its[x], k))

\* r = x - y
Diff(x, y) ==
    /\ x # y
    /\ Observe("x-y", x, y, 0, OpDiff(its[x], its[y]))

\* r = x < y, and the other five comparisons
Less(x, y) ==
    /\ x # y
    /\ Observe("x<y", x, y, 0, OpLess(its[x], its[y]))

Equal(x, y) ==
    /\ x # y
    /\ Observe("x==y", x, y, 0, OpEqual(its[x], its[y]))

Greater(x, y) ==
    /\ x # y
    /\ Observe("x>y", x, y, 0, OpGreater(its[x], its[y]))

LessEq(x, y) ==
    /\ x # y
    /\ Observe("x<=y", x, y, 0, OpLessEq(its[x], its[y]))

GreaterEq(x, y) ==
    /\ x # y
    /\ Observe("x>=y", x, y, 0, OpGreaterEq(its[x], its[y]))

NotEqual(x, y) ==
    /\ x # y
    /\ Observe("x!=y", x, y, 0, OpNotEqual(its[x], its[y]))

NextIter ==
    \E x \in Names :
        \/ Construct(x)
        \/ DerefRead(x) \/ Arrow(x)
        \/ PreInc(x) \/ PostInc(x) \/ PreDec(x) \/ PostDec(x)
        \/ \E k \in Deltas :
              PlusAssign(x, k) \/ MinusAssign(x, k) \/ Plus(x, k) \/ Minus(x, k)
        \/ \E y \in Names :
              \/ CopyAssign(x, y) \/ MoveAssign(x, y) \/ Diff(x, y)
              \/ Less(x, y) \/ Equal(x, y) \/ Greater(x, y)
              \/ LessEq(x, y) \/ GreaterEq(x, y) \/ NotEqual(x, y)

SpecIter == InitIter /\ [][NextIter]_vars

----------------------------------------------------------------------------
(* SpecDeref: iterator "a" moved over the container, which is read and     *)
(* written through it; the projection is the folded-interleave closure or  *)
(* any permutation of 0..IterN-1.                                          *)

InitDeref == InitObjects(Projections(IterN))

NextDeref ==
    \/ Construct("a")
    \/ PreInc("a") \/ PreDec("a")
    \/ \E k \in Deltas : PlusAssign("a", k)
    \/ DerefRead("a") \/ DerefWrite("a") \/ Arrow("a")

SpecDeref == InitDeref /\ [][NextDeref]_vars

----------------------------------------------------------------------------
(* Properties of the iterator operations (SpecIter, SpecDeref).            *)

Idx(x)       == its[x].index_
IdxBefore(x) == res.before[x].index_
Fresh        == make_projection_iterator(ctor.base, ctor.projection)

\* C5: "it -= k" leaves it at logical index x - k, and "it - k" returns an
\* iterator at logical index x - k, for every signed k.
C5_SubtractionMovesBackward ==
    /\ res.op = "x-=k" => Idx(res.x) = IdxBefore(res.x) - res.k
    /\ res.op = "x-k" => res.ret.index_ = Idx(res.x) - res.k
    /\ \A x \in Names : \A k \in Deltas :
          /\ OpEqual(OpPlus(OpMinus(its[x], k), k), its[x])
          /\ OpDiff(its[x], OpMinus(its[x], k)) = k

\* C6: a - b is the signed difference of the logical indices, whatever the
\* projection maps them to, and (a + k) - a = k for every delta k.
C6_DifferenceIsLogical ==
    /\ res.op = "x-y" => res.ret = Idx(res.x) - Idx(res.y)
    /\ \A x \in Names : \A k \in Deltas : OpDiff(OpPlus(its[x], k), its[x]) = k

\* C6 witness: a negative difference that is not the difference of the
\* physical positions.
C6_Witness ==
    /\ res.op = "x-y" /\ res.ret < 0
    /\ res.ret # projected_(its[res.x]) - projected_(its[res.y])

\* C7: a < b iff index(a) < index(b), a == b iff the indices are equal, the
\* derived operators agree with them (a > b iff b < a, a <= b iff not b < a,
\* a >= b iff not a < b, a != b iff not a == b), and exactly one of a < b,
\* a == b, a > b holds.
C7_ComparisonsAreLogical ==
    /\ res.op = "x<y"  => res.ret = (Idx(res.x) < Idx(res.y))
    /\ res.op = "x==y" => res.ret = (Idx(res.x) = Idx(res.y))
    /\ res.op = "x>y"  => res.ret = (Idx(res.y) < Idx(res.x))
    /\ res.op = "x<=y" => res.ret = ~(Idx(res.y) < Idx(res.x))
    /\ res.op = "x>=y" => res.ret = ~(Idx(res.x) < Idx(res.y))
    /\ res.op = "x!=y" => res.ret = ~(Idx(res.x) = Idx(res.y))
    /\ \A x, y \in Names :
          Cardinality({c \in {"lt", "eq", "gt"} :
              \/ c = "lt" /\ OpLess(its[x], its[y])
              \/ c = "eq" /\ OpEqual(its[x], its[y])
              \/ c = "gt" /\ OpGreater(its[x], its[y])}) = 1

\* C7 witness: a > b evaluated to true where the physical positions are in
\* the opposite order.
C7_Witness ==
    /\ res.op = "x>y" /\ res.ret = TRUE
    /\ projected_(its[res.x]) < projected_(its[res.y])

\* C9: ++it and --it change the logical index by +1 and -1 and yield the
\* updated iterator; it++ and it-- change it by +1 and -1 and return an
\* iterator at the previous index; ++ followed by -- restores the index; n
\* increments of a freshly constructed iterator equal begin + n.
RECURSIVE Incremented(_, _)
Incremented(it, n) ==
    IF n = 0 THEN it ELSE Incremented(OpPreInc(it).self, n - 1)

C9_IncrementDecrement ==
    /\ res.op = "++x" => Idx(res.x) = IdxBefore(res.x) + 1 /\ res.ret = its[res.x]
    /\ res.op = "--x" => Idx(res.x) = IdxBefore(res.x) - 1 /\ res.ret = its[res.x]
    /\ res.op = "x++" =>
          Idx(res.x) = IdxBefore(res.x) + 1 /\ res.ret = res.before[res.x]
    /\ res.op = "x--" =>
          Idx(res.x) = IdxBefore(res.x) - 1 /\ res.ret = res.before[res.x]
    /\ \A x \in Names :
          /\ OpPreDec(OpPreInc(its[x]).self).self = its[x]
          /\ OpPostDec(OpPostInc(its[x]).self).self = its[x]
          /\ OpPostDec(OpPreInc(its[x]).self).self = its[x]
          /\ OpPreDec(OpPostInc(its[x]).self).self = its[x]
    /\ \A n \in 0..IterN :
          /\ OpEqual(Incremented(Fresh, n), OpPlus(Fresh, n))
          /\ Incremented(Fresh, n).index_ = n

\* C9 witness: a post-increment that took an iterator from one before the
\* end to the end, which equals begin + n.
C9_Witness ==
    /\ res.op = "x++" /\ res.ret.index_ = IterN - 1
    /\ OpEqual(its[res.x], OpPlus(Fresh, IterN))

ConstOps ==
    {"*x", "x->", "x+k", "x-k", "x-y",
     "x<y", "x==y", "x>y", "x<=y", "x>=y", "x!=y"}
ReturnsIterator ==
    {"construct", "x=y", "x=move(y)", "++x", "x++", "--x", "x--",
     "x+=k", "x-=k", "x+k", "x-k"}

\* C10: whatever operations have run, every iterator's base position and
\* projection are the ones supplied at construction (and so are those of
\* every iterator an operation returned); dereference, member access,
\* difference, comparisons and binary + k / - k leave every operand as it was.
C10_OnlyTheIndexChanges ==
    /\ \A x \in Names :
          its[x].base_ = ctor.base /\ its[x].projection_ = ctor.projection
    /\ res.op \in ReturnsIterator =>
          res.ret.base_ = ctor.base /\ res.ret.projection_ = ctor.projection
    /\ res.op \in ConstOps => its = res.before
    /\ v = Pristine

\* C10 witness: a move assignment that changed the target's logical index.
C10_Witness ==
    /\ res.op = "x=move(y)"
    /\ Idx(res.x) = IterN /\ IdxBefore(res.x) = 0

Designated == [kind |-> "reference",
               pos |-> ctor.base + Call(ctor.projection, Idx("a"))]

\* C8: *it designates the element at base + projection(index) for the base
\* given at construction; a fresh iterator has index 0 and designates
\* base + projection(0); operator-> designates the same element as *it; a
\* write through *it changes exactly that one element.
C8_DerefAndArrowDesignateProjected ==
    /\ res.op = "*x" =>
          res.ret.ref = Designated /\ res.ret.val = v[Designated.pos + 1]
    /\ res.op = "construct" =>
          /\ Idx("a") = 0
          /\ OpDeref(its["a"]).pos = ctor.base + Call(ctor.projection, 0)
    /\ res.op = "x->" => res.ret = Designated /\ res.ret = OpDeref(its["a"])
    /\ res.op = "*x=" =>
          /\ res.ret.ref = Designated
          /\ v[Designated.pos + 1] = Written
          /\ \A i \in 1..ContLen : i # Designated.pos + 1 => v[i] = res.ret.old[i]

\* What does hold of C8: everything it says of operator* and of construction.
\* operator-> computes the same position but returns an element value.
DerefDesignatesProjected ==
    /\ res.op = "*x" =>
          res.ret.ref = Designated /\ res.ret.val = v[Designated.pos + 1]
    /\ res.op = "construct" =>
          /\ Idx("a") = 0
          /\ OpDeref(its["a"]).pos = ctor.base + Call(ctor.projection, 0)
    /\ res.op = "x->" => res.ret.pos = Designated.pos /\ res.ret.kind = "value"
    /\ res.op = "*x=" =>
          /\ res.ret.ref = Designated
          /\ v[Designated.pos + 1] = Written
          /\ \A i \in 1..ContLen : i # Designated.pos + 1 => v[i] = res.ret.old[i]

----------------------------------------------------------------------------
(* SpecSort: main's                                                        *)
(*     auto fip_proj  = make_folded_interleave_projection(v.size());       *)
(*     auto fip_begin = make_projection_iterator(v.begin(), fip_proj);     *)
(*     auto fip_end   = fip_begin + v.size();                              *)
(*     std::sort(fip_begin, fip_end);                                      *)
(*     print_span(fip_begin, fip_end);                                     *)
(* with std::sort as libstdc++ implements it (bits/stl_algo.h), every      *)
(* access to the range made through the operations of ProjIter above.      *)
(* The projection is the folded-interleave closure or, for the claims      *)
(* about arbitrary bijective projections, any permutation table.           *)
(*                                                                         *)
(* pc = "ub" stands for undefined behaviour: an element outside the        *)
(* container was accessed.  What the program does from there is not        *)
(* defined; of the outcomes a build can produce the model has two: the     *)
(* program never returns from the sort, or the sort returns with one       *)
(* element of the container overwritten (the outcome when the median of    *)
(* three is swapped with memory outside the container).                    *)

\* The worked example: [3,7,1,9,2] is to be left as [1,9,2,7,3].
Example == <<3, 7, 1, 9, 2>>

\* The array sorted by the one run on more than S_threshold elements.
LargeArray == [i \in 1..(S_threshold + 1) |-> (S_threshold + 1 - i) % (MaxVal + 1)]

Locals(first, last) ==
    [first |-> first, last |-> last, depth |-> 0, i |-> first, val |-> 0,
     n |-> 0, mlast |-> first, result |-> first, ulast |-> first,
     next |-> first, it |-> first]

InitSort ==
    /\ \/ \E n \in 0..MaxN :
            /\ v \in [1..n -> 0..MaxVal]
            /\ ctor \in [base : {0}, projection : Projections(n)]
       \/ /\ v \in {Example, LargeArray}
          /\ ctor = [base |-> 0,
                     projection |-> make_folded_interleave_projection(Len(v))]
    /\ v0 = v
    /\ pc = "sort"
    /\ loc = LET fip_begin == make_projection_iterator(ctor.base, ctor.projection)
                 fip_end   == OpPlus(fip_begin, Len(v))
             IN  Locals(fip_begin, fip_end)
    /\ out = <<>>
    /\ its = [x \in {"a", "b"} |-> NoIter] /\ res = NoRes
    /\ IdleProj

SortFrame == UNCHANGED <<psize, image, ctor, its, res, v0>>

\* std::__lg(n): the position of the highest set bit.
RECURSIVE Lg(_)
Lg(n) == IF n <= 1 THEN 0 ELSE 1 + Lg(n \div 2)

\* *it as an rvalue; only evaluated where Valid(it) holds.
Valid(it) == InBounds(v, OpDeref(it).pos)
Elem(it)  == v[OpDeref(it).pos + 1]
\* The index into v of the element *it designates.
At(it)    == OpDeref(it).pos + 1

\* The program has accessed an element outside the container.
Undefined == pc' = "ub" /\ UNCHANGED <<v, loc, out>>

\* After undefined behaviour: the sort returns with one element overwritten.
UndefinedOutcome ==
    /\ pc = "ub"
    /\ \E i \in 1..Len(v) : \E g \in 0..MaxVal : v' = [v EXCEPT ![i] = g]
    /\ pc' = "print"
    /\ loc' = [loc EXCEPT !.it = loc.first]
    /\ UNCHANGED out /\ SortFrame

\* std::__sort: if (first != last) { __introsort_loop(first, last,
\* __lg(last - first) * 2); __final_insertion_sort(first, last); }  up to the
\* first iteration of the loop entered.
StdSort ==
    /\ pc = "sort"
    /\ IF ~OpNotEqual(loc.first, loc.last)
       THEN pc' = "print" /\ loc' = [loc EXCEPT !.it = loc.first]
       ELSE IF OpDiff(loc.last, loc.first) > S_threshold
            THEN /\ pc' = "pivot"
                 /\ loc' = [loc EXCEPT
                              !.depth = Lg(OpDiff(loc.last, loc.first)) * 2]
            ELSE \* __insertion_sort: for (i = first + 1; ...
                 /\ pc' = "outer"
                 /\ loc' = [loc EXCEPT !.i = OpPlus(loc.first, 1)]
    /\ UNCHANGED <<v, out>> /\ SortFrame

\* __introsort_loop, the range being longer than _S_threshold and the depth
\* limit not exhausted: __unguarded_partition_pivot computes
\*     mid = first + (last - first) / 2
\* and calls __move_median_to_first(first, first + 1, mid, last - 1), which
\* compares *a with *b and then *b or *a with *c.  The partition that follows
\* would be entered at pc = "partition"; it is never reached
\* (PartitionNeverEntered) and is not modelled.
PartitionPivot ==
    /\ pc = "pivot"
    /\ loc.depth # 0
    /\ LET mid == OpPlus(loc.first, OpDiff(loc.last, loc.first) \div 2)
           a   == OpPlus(loc.first, 1)
           c   == OpMinus(loc.last, 1)
       IN  IF Valid(a) /\ Valid(mid) /\ Valid(c)
           THEN /\ pc' = "partition"
                /\ loc' = [loc EXCEPT !.depth = @ - 1, !.mlast = mid, !.next = c]
                /\ UNCHANGED <<v, out>>
           ELSE Undefined
    /\ SortFrame

\* __insertion_sort, one turn of  for (...; i != last; ++i):
\*     if (*i < *first) { val = *i; move_backward(first, i, i + 1); ... }
\*     else __unguarded_linear_insert(i)   [val = *i; next = i; --next;]
\* and, the loop over, the return to main, which calls print_span.
InsertionOuter ==
    /\ pc = "outer"
    /\ IF OpNotEqual(loc.i, loc.last)
       THEN IF ~(Valid(loc.i) /\ Valid(loc.first))
            THEN Undefined
            ELSE /\ IF Elem(loc.i) < Elem(loc.first)
                    THEN /\ pc' = "moveback"
                         /\ loc' = [loc EXCEPT
                                      !.val = Elem(loc.i),
                                      !.n = OpDiff(loc.i, loc.first),
                                      !.mlast = loc.i,
                                      !.result = OpPlus(loc.i, 1)]
                    ELSE /\ pc' = "linear"
                         /\ loc' = [loc EXCEPT
                                      !.val = Elem(loc.i),
                                      !.ulast = loc.i,
                                      !.next = OpPreDec(loc.i).self]
                 /\ UNCHANGED <<v, out>>
       ELSE /\ pc' = "print"
            /\ loc' = [loc EXCEPT !.it = loc.first]
            /\ UNCHANGED <<v, out>>
    /\ SortFrame

\* std::move_backward, one turn of
\*     for (n = last - first; n > 0; --n) *--result = std::move(*--last);
\* and, the loop over,  *first = val  and the ++i of __insertion_sort.
MoveBackward ==
    /\ pc = "moveback"
    /\ IF loc.n > 0
       THEN LET result == OpPreDec(loc.result).self
                mlast  == OpPreDec(loc.mlast).self
            IN  IF ~(Valid(result) /\ Valid(mlast))
                THEN Undefined
                ELSE /\ v' = [v EXCEPT ![At(result)] = Elem(mlast)]
                     /\ loc' = [loc EXCEPT !.result = result, !.mlast = mlast,
                                           !.n = @ - 1]
                     /\ UNCHANGED <<pc, out>>
       ELSE IF ~Valid(loc.first)
            THEN Undefined
            ELSE /\ v' = [v EXCEPT ![At(loc.first)] = loc.val]
                 /\ loc' = [loc EXCEPT !.i = OpPreInc(loc.i).self]
                 /\ pc' = "outer"
                 /\ UNCHANGED out
    /\ SortFrame

\* __unguarded_linear_insert, one turn of
\*     while (val < *next) { *last = *next; last = next; --next; }
\* and, the loop over,  *last = val  and the ++i of __insertion_sort.
LinearInsert ==
    /\ pc = "linear"
    /\ IF ~(Valid(loc.next) /\ Valid(loc.ulast))
       THEN Undefined
       ELSE IF loc.val < Elem(loc.next)
            THEN /\ v' = [v EXCEPT ![At(loc.ulast)] = Elem(loc.next)]
                 /\ loc' = [loc EXCEPT
                              !.ulast = OpCopyAssign(loc.ulast, loc.next).self,
                              !.next = OpPreDec(loc.next).self]
                 /\ UNCHANGED <<pc, out>>
            ELSE /\ v' = [v EXCEPT ![At(loc.ulast)] = loc.val]
                 /\ loc' = [loc EXCEPT !.i = OpPreInc(loc.i).self]
                 /\ pc' = "outer"
                 /\ UNCHANGED out
    /\ SortFrame

\* print_span, one turn of  for (Iter it = first; it != last; ++it) cout << *it;
PrintSpan ==
    /\ pc = "print"
    /\ IF OpNotEqual(loc.it, loc.last)
       THEN IF ~Valid(loc.it)
            THEN Undefined
            ELSE /\ out' = Append(out, Elem(loc.it))
                 /\ loc' = [loc EXCEPT !.it = OpPreInc(loc.it).self]
                 /\ UNCHANGED <<pc, v>>
       ELSE pc' = "done" /\ UNCHANGED <<v, loc, out>>
    /\ SortFrame

NextSort ==
    \/ StdSort
    \/ PartitionPivot
    \/ InsertionOuter
    \/ MoveBackward
    \/ LinearInsert
    \/ PrintSpan
    \/ UndefinedOutcome

SpecSort == InitSort /\ [][NextSort]_vars

----------------------------------------------------------------------------
(* Properties of the sort through the adapter (SpecSort).                  *)

Size       == Len(v0)
SortReturned == pc \in {"print", "done"}

\* The number of elements of sequence q equal to x.
Count(q, x) == Cardinality({i \in 1..Len(q) : q[i] = x})
IsPermutationOf(q, r) ==
    /\ Len(q) = Len(r)
    /\ \A i \in 1..Len(r) : Count(q, r[i]) = Count(r, r[i])

\* A[p(i)] is non-decreasing as i goes from 0 to n-1.
SortedThrough(projection) ==
    \A i \in 0..(Size - 2) :
        v[Call(projection, i) + 1] <= v[Call(projection, i + 1) + 1]

\* q in ascending order, by repeated selection of the least element.
RECURSIVE Ascending(_)
Ascending(q) ==
    IF q = <<>> THEN <<>>
    ELSE LET m == CHOOSE i \in 1..Len(q) : \A j \in 1..Len(q) : q[i] <= q[j]
         IN  <<q[m]>> \o Ascending([i \in 1..(Len(q) - 1) |->
                                       IF i < m THEN q[i] ELSE q[i + 1]])

\* C3: for any array and any bijective projection, the sort over
\* [begin, begin + n) ends with the array holding a permutation of its
\* original contents with A[p(i)] non-decreasing, and no element outside
\* physical positions 0..n-1 is ever accessed.
C3_SortThroughAdapter ==
    /\ pc # "ub"
    /\ SortReturned =>
          IsPermutationOf(v, v0) /\ SortedThrough(ctor.projection)

\* last - 1 never designates an element of the container: the introsort loop
\* does not get past its first dereference of it.
PartitionNeverEntered == pc # "partition"

\* What does hold of C3: on ranges of at most S_threshold elements, where
\* std::sort is the insertion sort alone, the sort keeps inside the container
\* and leaves A[p(i)] non-decreasing.
SmallRangesAreSorted ==
    Size <= S_threshold => C3_SortThroughAdapter

\* C4: after the sort through the folded-interleave projection, the
\* container read in natural order is the zig-zag fold of its contents s in
\* ascending order: A[2k] = s[k] and A[2k+1] = s[n-1-k]; the input
\* [3,7,1,9,2] is left as [1,9,2,7,3].
C4_ZigZagLayout ==
    (SortReturned /\ ctor.projection.kind = "fold") =>
        /\ Len(v) = Size
        /\ \A k \in 0..(Size - 1) :
              /\ 2 * k < Size => v[2 * k + 1] = Ascending(v0)[k + 1]
              /\ 2 * k + 1 < Size => v[2 * k + 2] = Ascending(v0)[Size - k]
        /\ v0 = Example => v = <<1, 9, 2, 7, 3>>

\* What does hold of C4: on ranges of at most S_threshold elements the
\* container is left as the zig-zag fold, and print_span through the
\* iterators writes the contents in ascending order.
SmallRangesAreZigZag ==
    Size <= S_threshold =>
        /\ C4_ZigZagLayout
        /\ (pc = "done" /\ ctor.projection.kind = "fold") => out = Ascending(v0)

\* The example has been sorted and printed.
ExampleSorted ==
    /\ pc = "done" /\ v0 = <<3, 7, 1, 9, 2>> /\ v = <<1, 9, 2, 7, 3>>
    /\ ctor.projection.kind = "fold" /\ out = <<1, 2, 3, 7, 9>>

=============================================================================
